---- MODULE Spec2Model ----
(***************************************************************************)
(* Model of manitracker.py: a Streamlit watchlist dashboard.  One run of   *)
(* the script (a render cycle) loads the wishlist from stock_wishlist.json,*)
(* handles the "Add to Wishlist" button, renders the table from            *)
(* get_stock_info (memoized by st.cache_data), and handles the remarks and *)
(* target-price edits of the selected stock.                               *)
(*                                                                         *)
(* Text is a sequence of one-character strings.  A price is a float with   *)
(* one decimal digit, held as a natural number of tenths (255 is 25.5).    *)
(***************************************************************************)
EXTENDS Naturals, Sequences, FiniteSets, TLC

\* ------------------------------------------------------------- bounds
\* The add handler stops growing the list at MaxItems items.
MaxItems == 3
\* The count of provider calls per symbol saturates at MaxCount.
MaxCount == 2
\* Characters the buffered writer holds before it writes them to the file
\* (io.DEFAULT_BUFFER_SIZE, scaled down).
BufSize == 40

\* ------------------------------------------------------------- inputs
\* What the user can type into "Enter NSE Ticker Symbol".
SymbolInputs ==
    { <<>>, <<"a">>, <<"A">>, <<"a", ".", "b">>, <<"A", ".", "b">>, <<"A", ".", "B">> }
\* What the user can enter as a target price (tenths): 0.0 and 25.5.
PriceInputs == {0, 255}
\* What the user can type into the remarks text area.
RemarksInputs == { <<>>, <<"x", "\"", "\\", "\n">> }

\* ------------------------------------------------------------- text
\* str.upper() on one character.
UpperChar(c) ==
    CASE c = "a" -> "A"
      [] c = "b" -> "B"
      [] OTHER -> c

\* str.upper(): every character uppercased, the others kept.
Upper(s) == [i \in 1..Len(s) |-> UpperChar(s[i])]

\* The symbols a wishlist can hold: the uppercased non-empty inputs.
Symbols == { Upper(s) : s \in SymbolInputs \ {<<>>} }

\* ------------------------------------------------------------- json.dump
\* The JSON string escape of one character (ensure_ascii text).
\* (EscapeCharNone: no character escaped.)
EscapeCharNone(c) == <<c>>
EscapeChar(c) ==
    CASE c = "\"" -> <<"\\", "\"">>
      [] c = "\\" -> <<"\\", "\\">>
      [] c = "\n" -> <<"\\", "n">>
      [] OTHER -> <<c>>

RECURSIVE EscapeFrom(_, _)
EscapeFrom(s, i) ==
    IF i > Len(s) THEN <<>> ELSE EscapeChar(s[i]) \o EscapeFrom(s, i + 1)

\* A Python str as a JSON string literal.
DumpStr(s) == <<"\"">> \o EscapeFrom(s, 1) \o <<"\"">>

DigitChar(d) == <<"0", "1", "2", "3", "4", "5", "6", "7", "8", "9">>[d + 1]

RECURSIVE DumpInt(_)
DumpInt(n) ==
    IF n < 10 THEN <<DigitChar(n)>> ELSE DumpInt(n \div 10) \o <<DigitChar(n % 10)>>

\* float.__repr__ of a price: integer part, point, the decimal digit.
DumpFloat(p) == DumpInt(p \div 10) \o <<".", DigitChar(p % 10)>>

KeySymbol == <<"s", "y", "m", "b", "o", "l">>
KeyTargetPrice == <<"t", "a", "r", "g", "e", "t", "_", "p", "r", "i", "c", "e">>
KeyRemarks == <<"r", "e", "m", "a", "r", "k", "s">>

\* One wishlist dict, keys in insertion order, separators ", " and ": ".
DumpItem(item) ==
    <<"{">> \o DumpStr(KeySymbol) \o <<":", " ">> \o DumpStr(item.symbol)
    \o <<",", " ">> \o DumpStr(KeyTargetPrice) \o <<":", " ">> \o DumpFloat(item.target_price)
    \o <<",", " ">> \o DumpStr(KeyRemarks) \o <<":", " ">> \o DumpStr(item.remarks)
    \o <<"}">>

RECURSIVE DumpItemsFrom(_, _)
DumpItemsFrom(items, i) ==
    IF i > Len(items) THEN <<>>
    ELSE (IF i > 1 THEN <<",", " ">> ELSE <<>>) \o DumpItem(items[i])
         \o DumpItemsFrom(items, i + 1)

\* json.dump(wishlist, f): the text written for the whole list.
Dump(items) == <<"[">> \o DumpItemsFrom(items, 1) \o <<"]">>

\* ------------------------------------------------------------- json.load
\* A parse result: ok, the value, and the position after it.
Fail == [ok |-> FALSE, val |-> <<>>, pos |-> 0]
Ok(v, p) == [ok |-> TRUE, val |-> v, pos |-> p]

EOF == ""
At(t, i) == IF i <= Len(t) THEN t[i] ELSE EOF

RECURSIVE SkipWs(_, _)
SkipWs(t, i) == IF At(t, i) \in {" ", "\n"} /\ At(t, i) # EOF THEN SkipWs(t, i + 1) ELSE i

Digits == {"0", "1", "2", "3", "4", "5", "6", "7", "8", "9"}
DigitVal(c) == CHOOSE d \in 0..9 : DigitChar(d) = c

\* The characters of a string literal after its opening quote.
RECURSIVE ParseChars(_, _, _)
ParseChars(t, i, acc) ==
    LET c == At(t, i) IN
    IF c = EOF THEN Fail
    ELSE IF c = "\"" THEN Ok(acc, i + 1)
    ELSE IF c = "\\" THEN
        LET e == At(t, i + 1) IN
        IF e = "\"" THEN ParseChars(t, i + 2, Append(acc, "\""))
        ELSE IF e = "\\" THEN ParseChars(t, i + 2, Append(acc, "\\"))
        ELSE IF e = "n" THEN ParseChars(t, i + 2, Append(acc, "\n"))
        ELSE Fail
    ELSE IF c = "\n" THEN Fail
    ELSE ParseChars(t, i + 1, Append(acc, c))

ParseString(t, i) == IF At(t, i) = "\"" THEN ParseChars(t, i + 1, <<>>) ELSE Fail

RECURSIVE ParseDigits(_, _, _)
ParseDigits(t, i, acc) ==
    IF At(t, i) \in Digits THEN ParseDigits(t, i + 1, acc * 10 + DigitVal(At(t, i)))
    ELSE Ok(acc, i)

\* A number: digits, then optionally a point and one decimal digit; in tenths.
ParseNumber(t, i) ==
    IF At(t, i) \notin Digits THEN Fail
    ELSE LET n == ParseDigits(t, i, 0) IN
         IF At(t, n.pos) # "." THEN Ok(n.val * 10, n.pos)
         ELSE IF At(t, n.pos + 1) \in Digits /\ At(t, n.pos + 2) \notin Digits
              THEN Ok(n.val * 10 + DigitVal(At(t, n.pos + 1)), n.pos + 2)
              ELSE Fail

\* The dict key a JSON object key names.
KeyName(k) ==
    CASE k = KeySymbol -> "symbol"
      [] k = KeyTargetPrice -> "target_price"
      [] k = KeyRemarks -> "remarks"
      [] OTHER -> "other"

RECURSIVE ParseValue(_, _), ParseElements(_, _, _), ParseMembers(_, _, _)

\* The elements of an array after "[" or after a comma.
ParseElements(t, i, acc) ==
    LET v == ParseValue(t, SkipWs(t, i)) IN
    IF ~v.ok THEN Fail
    ELSE LET j == SkipWs(t, v.pos) IN
         IF At(t, j) = "," THEN ParseElements(t, j + 1, Append(acc, v.val))
         ELSE IF At(t, j) = "]" THEN Ok(Append(acc, v.val), j + 1)
         ELSE Fail

\* The members of an object after "{" or after a comma; a later key wins.
ParseMembers(t, i, acc) ==
    LET k == ParseString(t, SkipWs(t, i)) IN
    IF ~k.ok THEN Fail
    ELSE LET c == SkipWs(t, k.pos) IN
         IF At(t, c) # ":" THEN Fail
         ELSE LET v == ParseValue(t, SkipWs(t, c + 1)) IN
              IF ~v.ok THEN Fail
              ELSE LET j == SkipWs(t, v.pos)
                       d == (KeyName(k.val) :> v.val) @@ acc
                   IN IF At(t, j) = "," THEN ParseMembers(t, j + 1, d)
                      ELSE IF At(t, j) = "}" THEN Ok(d, j + 1)
                      ELSE Fail

ParseValue(t, i) ==
    LET c == At(t, i) IN
    IF c = "[" THEN
        (IF At(t, SkipWs(t, i + 1)) = "]" THEN Ok(<<>>, SkipWs(t, i + 1) + 1)
         ELSE ParseElements(t, i + 1, <<>>))
    ELSE IF c = "{" THEN
        (IF At(t, SkipWs(t, i + 1)) = "}" THEN Ok(<<>>, SkipWs(t, i + 1) + 1)
         ELSE ParseMembers(t, i + 1, <<>>))
    ELSE IF c = "\"" THEN ParseString(t, i)
    ELSE ParseNumber(t, i)

\* json.load(f): one value, then only whitespace; anything else raises.
Parse(t) ==
    LET v == ParseValue(t, SkipWs(t, 1)) IN
    IF v.ok /\ SkipWs(t, v.pos) = Len(t) + 1 THEN v ELSE Fail

\* load_wishlist(): the parsed file if it exists, [] if not; a file that
\* does not parse raises (ok is FALSE).
load_wishlist(exists, text) == IF exists THEN Parse(text) ELSE Ok(<<>>, 0)

\* ------------------------------------------------------------- the store
\* any(item['symbol'] == new_symbol.upper() for item in wishlist)
\* (SymbolExistsRaw: compared without .upper().)
SymbolExistsRaw(items, sym) == \E i \in 1..Len(items) : items[i].symbol = sym
SymbolExists(items, sym) == \E i \in 1..Len(items) : items[i].symbol = Upper(sym)

\* The dict the add handler appends.  (NewItemRaw: the symbol stored as typed.)
NewItemRaw(sym, price) == [symbol |-> sym, target_price |-> price, remarks |-> <<>>]
NewItem(sym, price) == [symbol |-> Upper(sym), target_price |-> price, remarks |-> <<>>]

\* The add handler's branch: a warning, or the list with the new item appended.
Add(items, sym, price) ==
    IF SymbolExists(items, sym)
    THEN [items |-> items, added |-> FALSE]
    ELSE [items |-> Append(items, NewItem(sym, price)), added |-> TRUE]

\* for item in wishlist: if item['symbol'] == selected_symbol: item['remarks'] = new_remarks
\* (UpdateRemarksAll: the loop without its if.)
UpdateRemarksAll(items, sym, text) ==
    [i \in 1..Len(items) |-> [items[i] EXCEPT !.remarks = text]]
UpdateRemarks(items, sym, text) ==
    [i \in 1..Len(items) |->
        IF items[i].symbol = sym THEN [items[i] EXCEPT !.remarks = text] ELSE items[i]]

\* for item in wishlist: if item['symbol'] == selected_symbol: item['target_price'] = new_target
\* (UpdateTargetAll: the loop without its if.)
UpdateTargetAll(items, sym, price) ==
    [i \in 1..Len(items) |-> [items[i] EXCEPT !.target_price = price]]
UpdateTarget(items, sym, price) ==
    [i \in 1..Len(items) |->
        IF items[i].symbol = sym THEN [items[i] EXCEPT !.target_price = price] ELSE items[i]]

\* next((item[field] for item in wishlist if item['symbol'] == selected_symbol), default)
FirstMatch(items, sym) == items[CHOOSE i \in 1..Len(items) :
    items[i].symbol = sym /\ \A j \in 1..(i - 1) : items[j].symbol # sym]

\* ------------------------------------------------------------- the provider
\* A field of the provider's info blob: absent, null, a float or an int.
Absent == [t |-> "absent", v |-> 0]
Null == [t |-> "null", v |-> 0]
Float(x) == [t |-> "float", v |-> x]
Int(n) == [t |-> "int", v |-> n]

Blob(cp, dc) == [currentPrice |-> cp, regularMarketChangePercent |-> dc]

\* The info blobs the provider returns: every kind of value in each field.
Infos ==
    { Blob(Float(26005), Float(12)), Blob(Float(26005), Absent), Blob(Null, Float(12)),
      Blob(Absent, Null), Blob(Int(2600), Int(1)) }
NoInfo == Blob(Absent, Absent)

\* What yf.Ticker(symbol).history / .info do: raise, or return data and info.
ProviderOutcomes ==
    { [raises |-> TRUE, info |-> NoInfo] } \cup { [raises |-> FALSE, info |-> i] : i \in Infos }

\* The entry of st.cache_data for a symbol never fetched.
NotCached == [cached |-> FALSE, ok |-> FALSE, info |-> NoInfo]

\* The body of get_stock_info: (data, info), or (None, None) when anything raises.
Body(o) ==
    IF o.raises THEN [cached |-> TRUE, ok |-> FALSE, info |-> NoInfo]
    ELSE [cached |-> TRUE, ok |-> TRUE, info |-> o.info]

\* @st.cache_data: the stored return value is used when there is one.
\* (CacheMissAlways: the function without the decorator.)
CacheMissAlways(c, s) == FALSE
CacheHit(c, s) == c[s].cached

Inc(n) == IF n < MaxCount THEN n + 1 ELSE n

\* get_stock_info(symbol) on the process state st = [cache, calls, raised],
\* with o what the provider does if it is asked.
GetStockInfo(st, s, o) ==
    IF CacheHit(st.cache, s)
    THEN [cache |-> st.cache, calls |-> st.calls, raised |-> st.raised,
          result |-> st.cache[s], hit |-> TRUE]
    ELSE [cache |-> [st.cache EXCEPT ![s] = Body(o)],
          calls |-> [st.calls EXCEPT ![s] = Inc(@)],
          raised |-> IF o.raises THEN st.raised \cup {s} ELSE st.raised \ {s},
          result |-> Body(o), hit |-> FALSE]

\* ------------------------------------------------------------- the table
\* info.get('currentPrice', 'N/A') inside f"₹{current_price}".
CurrentPriceCell(info) ==
    LET f == info.currentPrice IN
    IF f.t = "absent" THEN [kind |-> "N/A", v |-> 0]
    ELSE IF f.t = "null" THEN [kind |-> "None", v |-> 0]
    ELSE [kind |-> "number", v |-> f.v]

\* f"{day_change:.2f}%" if isinstance(day_change, float) else "N/A"
DayChangeCell(info) ==
    LET f == info.regularMarketChangePercent IN
    IF f.t = "float" THEN [kind |-> "number", v |-> f.v] ELSE [kind |-> "N/A", v |-> 0]

Row(stock, info) ==
    [Symbol |-> stock.symbol, CurrentPrice |-> CurrentPriceCell(info),
     DayChange |-> DayChangeCell(info), TargetPrice |-> stock.target_price,
     Remarks |-> stock.remarks]

\* for stock in wishlist: fetch, and append a row when data and info are not None.
\* st = [cache, calls, raised, rows, last]; o gives the provider's outcome per symbol.
\* (TableLoopBreak: the loop left at the first failed fetch.)
RECURSIVE TableLoopBreak(_, _, _, _)
TableLoopBreak(items, i, st, o) ==
    IF i > Len(items) THEN st
    ELSE LET s == items[i].symbol
             g == GetStockInfo(st, s, o[s])
             nx == [cache |-> g.cache, calls |-> g.calls, raised |-> g.raised,
                    rows |-> IF g.result.ok THEN Append(st.rows, Row(items[i], g.result.info))
                             ELSE st.rows,
                    last |-> [symbol |-> s, hit |-> g.hit]]
         IN IF g.result.ok THEN TableLoopBreak(items, i + 1, nx, o) ELSE nx

RECURSIVE TableLoop(_, _, _, _)
TableLoop(items, i, st, o) ==
    IF i > Len(items) THEN st
    ELSE LET s == items[i].symbol
             g == GetStockInfo(st, s, o[s])
         IN TableLoop(items, i + 1,
                [cache |-> g.cache, calls |-> g.calls, raised |-> g.raised,
                 rows |-> IF g.result.ok THEN Append(st.rows, Row(items[i], g.result.info))
                          ELSE st.rows,
                 last |-> [symbol |-> s, hit |-> g.hit]],
                o)

\* ------------------------------------------------------------- state
VARIABLES
    fileExists,        \* os.path.exists(WISHLIST_FILE)
    file,              \* the characters of stock_wishlist.json
    cache,             \* st.cache_data of get_stock_info: symbol -> stored result
    calls,             \* per symbol, how often the provider was asked (this process)
    raised,            \* the symbols whose provider call raised (this process)
    pc,                \* where the script run is; "idle" between runs
    excpt,             \* the uncaught exception that ended the last run, or "none"
    wishlist,          \* the list the run works on
    pending,           \* text json.dump has written that is still in the buffer
    saveRet,           \* where the run continues after save_wishlist
    add_stock_button, new_symbol, new_target_price,
    msg,               \* the message the handler that ran last showed
    display_data,      \* the rows of the table
    lastFetch,         \* the last get_stock_info call of the run: symbol, cache hit
    selected_symbol, new_remarks, update_button, new_target

disk == <<fileExists, file>>
process == <<cache, calls, raised>>
addInputs == <<add_stock_button, new_symbol, new_target_price>>
detailInputs == <<selected_symbol, new_remarks>>
targetInputs == <<update_button, new_target>>
vars == <<fileExists, file, cache, calls, raised, pc, excpt, wishlist, pending, saveRet,
          add_stock_button, new_symbol, new_target_price, msg, display_data, lastFetch,
          selected_symbol, new_remarks, update_button, new_target>>

NoFetch == [symbol |-> <<>>, hit |-> FALSE]

\* A script run starts with none of its names assigned.
FreshRun ==
    /\ wishlist = <<>> /\ pending = <<>> /\ saveRet = "idle"
    /\ add_stock_button = FALSE /\ new_symbol = <<>> /\ new_target_price = 0
    /\ msg = "none" /\ display_data = <<>> /\ lastFetch = NoFetch
    /\ selected_symbol = <<>> /\ new_remarks = <<>>
    /\ update_button = FALSE /\ new_target = 0

\* The names of a run that is over are gone.
ResetRun ==
    /\ wishlist' = <<>> /\ pending' = <<>> /\ saveRet' = "idle"
    /\ add_stock_button' = FALSE /\ new_symbol' = <<>> /\ new_target_price' = 0
    /\ msg' = "none" /\ display_data' = <<>> /\ lastFetch' = NoFetch
    /\ selected_symbol' = <<>> /\ new_remarks' = <<>>
    /\ update_button' = FALSE /\ new_target' = 0

\* A started process: no cached result, no call made.
FreshCache == [s \in Symbols |-> NotCached]
FreshCalls == [s \in Symbols |-> 0]

Init ==
    /\ fileExists = FALSE /\ file = <<>>
    /\ cache = FreshCache /\ calls = FreshCalls /\ raised = {}
    /\ pc = "idle" /\ excpt = "none"
    /\ FreshRun

\* ------------------------------------------------------------- a script run
\* A rerun starts the script: wishlist = load_wishlist(); a file that does
\* not parse ends the run with json.JSONDecodeError.
Rerun ==
    /\ pc = "idle"
    /\ LET l == load_wishlist(fileExists, file) IN
       IF l.ok
       THEN /\ wishlist' = l.val /\ pc' = "add" /\ excpt' = "none"
       ELSE /\ wishlist' = <<>> /\ pc' = "idle" /\ excpt' = "JSONDecodeError"
    /\ UNCHANGED <<disk, process, pending, saveRet, addInputs, msg, display_data,
                   lastFetch, detailInputs, targetInputs>>

\* The save_wishlist(wishlist) call that follows a change of the list.
\* (SkipSave: the call left out.)
SkipSave(ret) == pc' = ret /\ saveRet' = saveRet
SaveThen(ret) == pc' = "save_open" /\ saveRet' = ret

\* if add_stock_button and new_symbol: warn about a duplicate, or append and save.
AddHandler ==
    /\ pc = "add"
    /\ \E b \in BOOLEAN, sym \in SymbolInputs, price \in PriceInputs :
        /\ add_stock_button' = b
        /\ new_symbol' = (IF b THEN sym ELSE <<>>)
        /\ new_target_price' = (IF b /\ sym # <<>> THEN price ELSE 0)
        /\ ~b => sym = <<>> /\ price = 0
        /\ (b /\ sym = <<>>) => price = 0
        /\ IF b /\ sym # <<>>
           THEN LET a == Add(wishlist, sym, price) IN
                IF a.added
                THEN /\ Len(wishlist) < MaxItems
                     /\ wishlist' = a.items
                     /\ msg' = "none"
                     /\ SaveThen("table")
                ELSE /\ wishlist' = a.items
                     /\ msg' = "warning: already in your wishlist"
                     /\ pc' = "table" /\ saveRet' = saveRet
           ELSE /\ msg' = "none" /\ pc' = "table"
                /\ UNCHANGED <<wishlist, saveRet>>
    /\ UNCHANGED <<disk, process, excpt, pending, display_data, lastFetch,
                   detailInputs, targetInputs>>

\* open(WISHLIST_FILE, "w"): the file is created or truncated; json.dump
\* writes the text into the buffer.
SaveOpen ==
    /\ pc = "save_open"
    /\ fileExists' = TRUE /\ file' = <<>>
    /\ pending' = Dump(wishlist)
    /\ pc' = "save_write"
    /\ UNCHANGED <<process, excpt, wishlist, saveRet, addInputs, msg, display_data,
                   lastFetch, detailInputs, targetInputs>>

\* The buffer is full: its first BufSize characters are written to the file.
SaveFlush ==
    /\ pc = "save_write"
    /\ Len(pending) > BufSize
    /\ file' = file \o SubSeq(pending, 1, BufSize)
    /\ pending' = SubSeq(pending, BufSize + 1, Len(pending))
    /\ UNCHANGED <<fileExists, process, pc, excpt, wishlist, saveRet, addInputs, msg,
                   display_data, lastFetch, detailInputs, targetInputs>>

\* The with block ends: the rest of the buffer is written, the file closed,
\* and the caller shows its success message.
SaveClose ==
    /\ pc = "save_write"
    /\ Len(pending) <= BufSize
    /\ file' = file \o pending
    /\ pending' = <<>>
    /\ pc' = saveRet
    /\ msg' = (CASE saveRet = "table" -> "success: added"
                 [] saveRet = "target" -> "success: remarks updated"
                 [] OTHER -> "success: target price updated")
    /\ UNCHANGED <<fileExists, process, excpt, wishlist, saveRet, addInputs,
                   display_data, lastFetch, detailInputs, targetInputs>>

\* The provider is asked about a symbol of the list that has no cached result;
\* for any other symbol its outcome does not matter and is fixed.
Unasked == [raises |-> TRUE, info |-> NoInfo]
Asked(items, c, s) == (\E i \in 1..Len(items) : items[i].symbol = s) /\ ~CacheHit(c, s)

\* if wishlist: the table loop; else st.info and the run ends.  The names of
\* the add handler are not read again and are cleared.
TableStep ==
    /\ pc = "table"
    /\ \E o \in [Symbols -> ProviderOutcomes] :
        /\ \A s \in Symbols : ~Asked(wishlist, cache, s) => o[s] = Unasked
        /\ LET st == TableLoop(wishlist, 1,
                         [cache |-> cache, calls |-> calls, raised |-> raised,
                          rows |-> <<>>, last |-> NoFetch], o)
           IN /\ cache' = st.cache /\ calls' = st.calls /\ raised' = st.raised
              /\ display_data' = st.rows
              /\ lastFetch' = st.last
    /\ IF wishlist # <<>>
       THEN pc' = "detail" /\ msg' = "none"
       ELSE pc' = "end" /\ msg' = "info: wishlist is empty"
    /\ add_stock_button' = FALSE /\ new_symbol' = <<>> /\ new_target_price' = 0
    /\ UNCHANGED <<disk, excpt, wishlist, pending, saveRet, detailInputs, targetInputs>>

\* The selectbox, get_stock_info(selected_symbol), and the remarks text area:
\* a text that differs from the stored remarks is stored and saved.
DetailStep ==
    /\ pc = "detail"
    /\ \E sel \in { wishlist[i].symbol : i \in 1..Len(wishlist) },
          o \in ProviderOutcomes, text \in RemarksInputs :
        LET g == GetStockInfo([cache |-> cache, calls |-> calls, raised |-> raised], sel, o)
            current_remarks == FirstMatch(wishlist, sel).remarks
        IN /\ (g.hit => o = [raises |-> TRUE, info |-> NoInfo])
           /\ cache' = g.cache /\ calls' = g.calls /\ raised' = g.raised
           /\ lastFetch' = [symbol |-> sel, hit |-> g.hit]
           /\ selected_symbol' = sel
           /\ IF g.result.ok
              THEN /\ new_remarks' = text
                   /\ IF text # current_remarks
                      THEN /\ wishlist' = UpdateRemarks(wishlist, sel, text)
                           /\ SaveThen("target")
                      ELSE /\ wishlist' = wishlist
                           /\ pc' = "target" /\ saveRet' = saveRet
              ELSE /\ text = <<>>
                   /\ new_remarks' = <<>>
                   /\ pc' = "end"
                   /\ UNCHANGED <<wishlist, saveRet>>
    /\ msg' = "none"
    /\ UNCHANGED <<disk, excpt, pending, addInputs, display_data, targetInputs>>

\* The number input and the "Update Target Price" button.
TargetHandler ==
    /\ pc = "target"
    /\ \E b \in BOOLEAN, price \in PriceInputs :
        /\ update_button' = b
        /\ new_target' = (IF b THEN price ELSE 0)
        /\ ~b => price = 0
        /\ IF b
           THEN /\ wishlist' = UpdateTarget(wishlist, selected_symbol, price)
                /\ SaveThen("end")
           ELSE /\ pc' = "end"
                /\ UNCHANGED <<wishlist, saveRet>>
    /\ new_remarks' = <<>>
    /\ msg' = "none"
    /\ UNCHANGED <<disk, process, excpt, pending, addInputs, display_data, lastFetch,
                   selected_symbol>>

\* The script run is over; its names are gone.
EndRun ==
    /\ pc = "end"
    /\ pc' = "idle"
    /\ ResetRun
    /\ UNCHANGED <<disk, process, excpt>>

\* The process stops at any point and is started again: the file stays as it
\* is, everything in memory is lost.
Crash ==
    /\ pc' = "idle" /\ excpt' = "none"
    /\ cache' = FreshCache /\ calls' = FreshCalls /\ raised' = {}
    /\ ResetRun
    /\ UNCHANGED disk

Next ==
    \/ Rerun
    \/ AddHandler
    \/ SaveOpen
    \/ SaveFlush
    \/ SaveClose
    \/ TableStep
    \/ DetailStep
    \/ TargetHandler
    \/ EndRun
    \/ Crash

Spec == Init /\ [][Next]_vars

\* ------------------------------------------------------------- the store alone
\* The three list operations of the script applied as functions, to any
\* symbol, price and text, starting from the empty list: lines 59-66,
\* 122-124 and 139-141 without the widgets around them.
OpsInit ==
    /\ fileExists = FALSE /\ file = <<>>
    /\ cache = FreshCache /\ calls = FreshCalls /\ raised = {}
    /\ pc = "ops" /\ excpt = "none"
    /\ FreshRun

OpAdd ==
    /\ \E sym \in SymbolInputs \ {<<>>}, price \in PriceInputs :
        LET a == Add(wishlist, sym, price) IN
        /\ a.added => Len(wishlist) < MaxItems
        /\ wishlist' = a.items
        /\ msg' = (IF a.added THEN "success: added" ELSE "warning: already in your wishlist")
        /\ new_symbol' = sym /\ new_target_price' = price
    /\ pc' = "op_add"
    /\ selected_symbol' = <<>> /\ new_remarks' = <<>> /\ new_target' = 0
    /\ UNCHANGED <<disk, process, excpt, pending, saveRet, add_stock_button,
                   display_data, lastFetch, update_button>>

OpUpdateRemarks ==
    /\ \E sym \in Symbols, text \in RemarksInputs :
        /\ wishlist' = UpdateRemarks(wishlist, sym, text)
        /\ selected_symbol' = sym /\ new_remarks' = text
    /\ pc' = "op_update_remarks"
    /\ msg' = "none" /\ new_symbol' = <<>> /\ new_target_price' = 0 /\ new_target' = 0
    /\ UNCHANGED <<disk, process, excpt, pending, saveRet, add_stock_button,
                   display_data, lastFetch, update_button>>

OpUpdateTarget ==
    /\ \E sym \in Symbols, price \in PriceInputs :
        /\ wishlist' = UpdateTarget(wishlist, sym, price)
        /\ selected_symbol' = sym /\ new_target' = price
    /\ pc' = "op_update_target"
    /\ msg' = "none" /\ new_symbol' = <<>> /\ new_target_price' = 0 /\ new_remarks' = <<>>
    /\ UNCHANGED <<disk, process, excpt, pending, saveRet, add_stock_button,
                   display_data, lastFetch, update_button>>

OpsNext ==
    \/ OpAdd
    \/ OpUpdateRemarks
    \/ OpUpdateTarget

OpsSpec == OpsInit /\ [][OpsNext]_vars

\* ------------------------------------------------------------- properties
WarningMsg == "warning: already in your wishlist"
Saving == pc \in {"save_open", "save_write"}
Present(items, sym) == \E i \in 1..Len(items) : items[i].symbol = sym

NoDuplicateSymbols(items) ==
    \A i, j \in 1..Len(items) : i # j => Upper(items[i].symbol) # Upper(items[j].symbol)

\* C1: after any sequence of adds from the empty collection, no two items of
\* the list in memory, or of the list the file holds, have the same symbol
\* compared case-insensitively.
C1_UniqueSymbols ==
    /\ NoDuplicateSymbols(wishlist)
    /\ LET l == load_wishlist(fileExists, file) IN l.ok => NoDuplicateSymbols(l.val)

\* An add of a lowercase symbol was rejected as a duplicate of the second item.
C1_Witness ==
    /\ pc = "table" /\ msg = WarningMsg
    /\ Len(wishlist) = 2
    /\ new_symbol # Upper(new_symbol)
    /\ wishlist[2].symbol = Upper(new_symbol)

\* C2 as claimed: every add (the button pressed, any symbol) uppercases the
\* symbol; if an item with the uppercased symbol exists the list is unchanged
\* and a warning is shown (added = false); otherwise exactly one item
\* {uppercased symbol, the given price, empty remarks} is appended at the end
\* and every earlier item is unchanged (added = true).
C2_AddContractAnySymbol ==
    [][ (pc = "add" /\ pc' \in {"table", "save_open"} /\ add_stock_button')
        => IF Present(wishlist, Upper(new_symbol'))
           THEN wishlist' = wishlist /\ msg' = WarningMsg /\ pc' = "table"
           ELSE /\ wishlist' = Append(wishlist,
                                  [symbol |-> Upper(new_symbol'),
                                   target_price |-> new_target_price',
                                   remarks |-> <<>>])
                /\ pc' = "save_open" /\ saveRet' = "table" /\ msg' # WarningMsg
      ]_vars

\* C2, amended: an add with a non-empty symbol uppercases it; if an item with
\* the uppercased symbol exists the list is unchanged and a warning is shown
\* (added = false); otherwise exactly one item {uppercased symbol, the given
\* price, empty remarks} is appended at the end, every earlier item is
\* unchanged, and the success message follows the save (added = true).  An
\* add with an empty symbol does nothing: no item, no warning, no save.
C2_AddContract ==
    [][ /\ (pc = "add" /\ pc' \in {"table", "save_open"}
            /\ add_stock_button' /\ new_symbol' # <<>>)
           => IF Present(wishlist, Upper(new_symbol'))
              THEN wishlist' = wishlist /\ msg' = WarningMsg /\ pc' = "table"
              ELSE /\ wishlist' = Append(wishlist,
                                     [symbol |-> Upper(new_symbol'),
                                      target_price |-> new_target_price',
                                      remarks |-> <<>>])
                   /\ pc' = "save_open" /\ saveRet' = "table" /\ msg' # WarningMsg
        /\ (pc = "add" /\ pc' \in {"table", "save_open"}
            /\ add_stock_button' /\ new_symbol' = <<>>)
           => wishlist' = wishlist /\ msg' = "none" /\ pc' = "table" /\ UNCHANGED disk
        /\ (pc = "save_write" /\ pc' = "table") => msg' = "success: added"
      ]_vars

\* A lowercase symbol was appended, uppercased, behind an existing item.
C2_Witness ==
    /\ pc = "save_open" /\ saveRet = "table"
    /\ Len(wishlist) = 2
    /\ new_symbol = <<"a", ".", "b">>
    /\ wishlist[2] = [symbol |-> <<"A", ".", "B">>, target_price |-> new_target_price,
                      remarks |-> <<>>]
    /\ new_target_price = 255

\* C3: the text save writes for a collection loads back as an equal
\* collection, items in order, also from the file a finished save leaves;
\* and a run that finds no file starts with the empty list.
C3_SaveLoadRoundTrip ==
    /\ LET l == load_wishlist(TRUE, Dump(wishlist)) IN l.ok /\ l.val = wishlist
    /\ msg \in {"success: added", "success: remarks updated",
                "success: target price updated"}
         => /\ fileExists
            /\ LET l == load_wishlist(fileExists, file) IN l.ok /\ l.val = wishlist
    /\ (pc = "add" /\ ~fileExists) => wishlist = <<>>

\* A run loaded two items, one with remarks that need escaping, from the file.
C3_Witness ==
    /\ pc = "add" /\ fileExists
    /\ Len(wishlist) = 2
    /\ wishlist[1].remarks = <<"x", "\"", "\\", "\n">>
    /\ wishlist[2].target_price = 255

\* C4: the remarks update changes only the remarks of the item whose symbol
\* is the selected one: symbols, target prices, every other item, and the
\* number and order of the items stay.
C4_UpdateRemarksFrame ==
    [][ (pc = "detail" /\ pc' \in {"save_open", "target"})
        => /\ Len(wishlist') = Len(wishlist)
           /\ \A i \in 1..Len(wishlist) :
                /\ wishlist'[i].symbol = wishlist[i].symbol
                /\ wishlist'[i].target_price = wishlist[i].target_price
                /\ wishlist[i].symbol # selected_symbol' => wishlist'[i] = wishlist[i]
                /\ wishlist[i].symbol = selected_symbol'
                       => wishlist'[i].remarks = new_remarks'
      ]_vars

\* The remarks of one of two items were changed; the other item's differ.
C4_Witness ==
    /\ pc = "save_open" /\ saveRet = "target"
    /\ Len(wishlist) = 2
    /\ new_remarks # <<>>
    /\ \E i, j \in 1..2 :
        /\ wishlist[i].symbol = selected_symbol /\ wishlist[i].remarks = new_remarks
        /\ wishlist[j].symbol # selected_symbol /\ wishlist[j].remarks # new_remarks

\* C5: update_target for a symbol that no item has returns the list as it was.
C5_UpdateTargetAbsentNoOp ==
    [][ (pc' = "op_update_target" /\ ~Present(wishlist, selected_symbol'))
        => wishlist' = wishlist ]_vars

\* update_target ran for a symbol the one-item list does not hold, with a
\* price other than that item's.
C5_Witness ==
    /\ pc = "op_update_target"
    /\ Len(wishlist) = 1
    /\ ~Present(wishlist, selected_symbol)
    /\ wishlist[1].target_price # new_target

\* C6: within one process the provider is asked at most once per symbol, and
\* exactly once for every symbol that has been fetched, however often it is
\* fetched.
C6_ProviderCalledOnce ==
    \A s \in Symbols :
        /\ calls[s] <= 1
        /\ cache[s].cached <=> calls[s] = 1

\* A fetch was answered from the cache, the provider having been asked once.
C6_Witness ==
    /\ lastFetch.hit
    /\ calls[lastFetch.symbol] = 1
    /\ pc = "target"

\* The table is rendered.
TableDone ==
    \/ pc \in {"detail", "target", "end"}
    \/ Saving /\ saveRet \in {"target", "end"}

RECURSIVE SymbolsWithData(_, _)
SymbolsWithData(items, i) ==
    IF i > Len(items) THEN <<>>
    ELSE (IF cache[items[i].symbol].ok THEN <<items[i].symbol>> ELSE <<>>)
         \o SymbolsWithData(items, i + 1)

\* C7: a provider call that raises gives the failure result (None, None)
\* for that symbol and the run goes on; the table has no row for such a
\* symbol and has the rows, in order, of all items whose fetch succeeded.
C7_FailedFetchOmitsRow ==
    /\ \A s \in raised : cache[s].cached /\ ~cache[s].ok
    /\ TableDone =>
        /\ [i \in 1..Len(display_data) |-> display_data[i].Symbol]
               = SymbolsWithData(wishlist, 1)
        /\ \A i \in 1..Len(display_data) : display_data[i].Symbol \notin raised

\* The first item's fetch failed and the table holds the second item's row.
C7_Witness ==
    /\ pc = "detail"
    /\ Len(wishlist) = 2
    /\ wishlist[1].symbol \in raised
    /\ Len(display_data) = 1
    /\ display_data[1].Symbol = wishlist[2].symbol

\* C8: in every row, a field the info blob lacks (absent or null) shows as
\* the unavailable value "N/A", and a field present with a number shows that
\* number.
C8_MissingFieldUnavailable ==
    \A i \in 1..Len(display_data) :
        LET row == display_data[i]
            info == cache[row.Symbol].info
            Shown(f, cell) ==
                IF f.t \in {"absent", "null"}
                THEN cell.kind = "N/A"
                ELSE cell = [kind |-> "number", v |-> f.v]
        IN TableDone =>
            /\ Shown(info.currentPrice, row.CurrentPrice)
            /\ Shown(info.regularMarketChangePercent, row.DayChange)

\* C9: the persisted file, whenever it exists, holds a complete serialized
\* collection: never an empty, truncated or partly written text.
C9_SaveAtomic ==
    fileExists => Parse(file).ok

\* C10: outside a save in progress the file holds exactly the list in
\* memory, so every add, remarks change and target update is persisted
\* before the run ends; and a rejected duplicate add writes nothing.
C10_MutationsPersisted ==
    /\ [](pc \in {"add", "table", "detail", "target", "end"}
            => LET l == load_wishlist(fileExists, file) IN l.ok /\ l.val = wishlist)
    /\ [][ (pc = "add" /\ msg' = WarningMsg) => UNCHANGED disk ]_vars

\* A run ends after a target update, with remarks and prices edited.
C10_Witness ==
    /\ pc = "end" /\ update_button
    /\ msg = "success: target price updated"
    /\ Len(wishlist) = 2
    /\ wishlist[1].remarks # <<>>
    /\ wishlist[2].target_price # wishlist[1].target_price
====
